---- MODULE Spec2Model ----
(***************************************************************************)
(* Model of mlflow/genai/evaluation/utils.py:                              *)
(*   _convert_to_legacy_eval_set  (dataset normalizer, lines 32-94)        *)
(*   _extract_request_from_trace, _extract_expectations_from_trace,        *)
(*   _convert_expectations_to_legacy_columns (pipeline stages)             *)
(*   _convert_scorer_to_legacy_metric.eval_fn (metric adapter, 181-231)    *)
(*                                                                         *)
(* Python objects are modelled with identity where the code can observe    *)
(* it: a dict stored in a dataframe cell is a reference into `heap`, so    *)
(* that DataFrame(data) and data.copy() share the dicts with the caller    *)
(* exactly as pandas does (the copy is of the cell array, not of the       *)
(* objects the cells point at).                                            *)
(***************************************************************************)
EXTENDS Integers, Sequences, FiniteSets, TLC

VARIABLES
    pc,         \* "start" (arguments bound, call not made) | "done"
    data,       \* the caller's argument of _convert_to_legacy_eval_set
    pyspark,    \* whether `import pyspark.sql.dataframe` succeeds
    heap,       \* the dict objects, by reference (1..Len(heap))
    outcome,    \* "none" before the call; "ok" or the error raised
    result,     \* the returned dataframe (EmptyTable when none)
    scorer,     \* eval_fn: the parameter names the wrapped scorer declares
    args,       \* eval_fn: the legacy arguments it is called with
    kwargs,     \* eval_fn: the extra keyword context (**kwargs)
    call        \* eval_fn: the keyword arguments the scorer was invoked with

vars == <<pc, data, pyspark, heap, outcome, result, scorer, args, kwargs, call>>

\* Largest number of rows (list items) of an input dataset.
MaxRows == 2

----------------------------------------------------------------------------
(* Values held in dataframe cells.  Every cell is a record of the same     *)
(* shape so that any two cells can be compared.                            *)

NaN == [k |-> "nan", s |-> "", n |-> 0]        \* pandas' missing marker
None == [k |-> "none", s |-> "", n |-> 0]
Str(x) == [k |-> "str", s |-> x, n |-> 0]
Dict(ref) == [k |-> "dict", s |-> "", n |-> ref]   \* reference to heap[ref]
TraceCell(id) == [k |-> "trace", s |-> "", n |-> id]

EmptyDict == [x \in {} |-> None]
EmptyTable == [cols |-> <<>>, rows |-> <<>>]

\* isinstance(value, dict)
IsDict(c) == c.k = "dict"
\* pd.isna(value) for a scalar cell
IsNa(c) == c.k \in {"nan", "none"}

----------------------------------------------------------------------------
(* json.loads, over the lexed text of a trace's stored request.  A token   *)
(* is punctuation, a string literal or the literal null.  The texts that   *)
(* occur are a scalar or a flat object of scalar members.                  *)

P(x) == [t |-> "p", s |-> x]
S(x) == [t |-> "str", s |-> x]
Lit(x) == [t |-> "lit", s |-> x]

JsonError == [ok |-> FALSE, k |-> "none", s |-> "", d |-> EmptyDict]
JsonScalar(c) == [ok |-> TRUE, k |-> c.k, s |-> c.s, d |-> EmptyDict]
JsonObject(d) == [ok |-> TRUE, k |-> "dict", s |-> "", d |-> d]

IsScalarTok(tok) == tok.t = "str" \/ tok = Lit("null")
ScalarOf(tok) == IF tok.t = "str" THEN Str(tok.s) ELSE None

\* d[key] = v, as a dict assignment (a repeated key keeps the last value)
DictSet(d, key, v) ==
    [x \in DOMAIN d \cup {key} |-> IF x = key THEN v ELSE d[x]]

RECURSIVE ParseMembers(_, _)
ParseMembers(ts, acc) ==
    IF Len(ts) < 3 \/ ts[1].t # "str" \/ ts[2] # P(":") \/ ~IsScalarTok(ts[3])
    THEN JsonError
    ELSE LET acc2 == DictSet(acc, ts[1].s, ScalarOf(ts[3]))
         IN  IF Len(ts) = 3 THEN JsonObject(acc2)
             ELSE IF ts[4] = P(",") /\ Len(ts) > 4
                  THEN ParseMembers(SubSeq(ts, 5, Len(ts)), acc2)
                  ELSE JsonError

json_loads(ts) ==
    IF Len(ts) = 1 /\ IsScalarTok(ts[1]) THEN JsonScalar(ScalarOf(ts[1]))
    ELSE IF Len(ts) >= 2 /\ ts[1] = P("{") /\ ts[Len(ts)] = P("}")
         THEN IF Len(ts) = 2 THEN JsonObject(EmptyDict)
              ELSE ParseMembers(SubSeq(ts, 2, Len(ts) - 1), EmptyDict)
         ELSE JsonError

----------------------------------------------------------------------------
(* The trace objects that occur in datasets: trace.data.request is the     *)
(* serialized request, trace.info.assessments the list of assessments      *)
(* (name, expectation or None).                                            *)

Assessment(name, has, v) == [name |-> name, has |-> has, value |-> v]

TraceTable == <<
    \* request {"a": "1"}; one expectation and one feedback-only assessment
    [request |-> <<P("{"), S("a"), P(":"), S("1"), P("}")>>,
     assessments |-> <<Assessment("expected_response", TRUE, Str("traced")),
                       Assessment("relevance", FALSE, None),
                       Assessment("my_key", TRUE, Str("w"))>>],
    \* request {"b": null, "c": "2"}; no assessments
    [request |-> <<P("{"), S("b"), P(":"), Lit("null"), P(","),
                   S("c"), P(":"), S("2"), P("}")>>,
     assessments |-> <<>>],
    \* request text cut short: not valid JSON
    [request |-> <<P("{"), S("a"), P(":")>>,
     assessments |-> <<Assessment("guidelines", TRUE, Str("g"))>>] >>

----------------------------------------------------------------------------
(* Dataframes: column labels in order, and rows of cells by position.      *)

HasCol(df, c) == \E i \in 1..Len(df.cols) : df.cols[i] = c
ColIdx(df, c) == CHOOSE i \in 1..Len(df.cols) :
                    /\ df.cols[i] = c
                    /\ \A j \in 1..(i - 1) : df.cols[j] # c
NRows(df) == Len(df.rows)
Column(df, c) == [r \in 1..NRows(df) |-> df.rows[r][ColIdx(df, c)]]

\* df[c] = vals : overwrite the column labelled c, or append a new one
SetCol(df, c, vals) ==
    IF HasCol(df, c)
    THEN [df EXCEPT !.rows = [r \in 1..NRows(df) |->
            [i \in 1..Len(df.cols) |->
                IF df.cols[i] = c THEN vals[r] ELSE df.rows[r][i]]]]
    ELSE [cols |-> Append(df.cols, c),
          rows |-> [r \in 1..NRows(df) |-> Append(df.rows[r], vals[r])]]

\* df.at[r, c] = v
SetAt(df, r, c, v) == [df EXCEPT !.rows[r][ColIdx(df, c)] = v]

RECURSIVE Without(_, _, _)
Without(seq, cols, c) ==
    IF cols = <<>> THEN <<>>
    ELSE IF Head(cols) = c THEN Without(Tail(seq), Tail(cols), c)
         ELSE <<Head(seq)>> \o Without(Tail(seq), Tail(cols), c)

\* df.drop(columns=[c])
DropCol(df, c) ==
    [cols |-> Without(df.cols, df.cols, c),
     rows |-> [r \in 1..NRows(df) |-> Without(df.rows[r], df.cols, c)]]

\* Mutant: `outputs` is left out of the mapping.
column_mapping_InputsOnly(c) == IF c = "inputs" THEN "request" ELSE c

column_mapping(c) ==
    IF c = "inputs" THEN "request"
    ELSE IF c = "outputs" THEN "response" ELSE c

\* df.rename(columns=column_mapping)
Rename(df) ==
    [df EXCEPT !.cols = [i \in 1..Len(df.cols) |-> column_mapping(df.cols[i])]]

\* pd.DataFrame(list of dicts): the columns are the keys in order of first
\* appearance; a key a row lacks is NaN in that row.
RECURSIVE KeysInOrder(_, _)
KeysInOrder(items, acc) ==
    IF items = <<>> THEN acc
    ELSE LET it == Head(items)
             new == SelectSeq(it.cols, LAMBDA c :
                        \A j \in 1..Len(acc) : acc[j] # c)
         IN  KeysInOrder(Tail(items), acc \o new)

ItemGet(it, c) ==
    IF \E j \in 1..Len(it.cols) : it.cols[j] = c
    THEN it.vals[CHOOSE j \in 1..Len(it.cols) : it.cols[j] = c]
    ELSE NaN

FromRecords(items) ==
    LET cols == KeysInOrder(items, <<>>)
    IN  [cols |-> cols,
         rows |-> [r \in 1..Len(items) |->
                    [i \in 1..Len(cols) |-> ItemGet(items[r], cols[i])]]]

\* A pipeline stage's result: the error raised ("ok" when none), the
\* dataframe and the heap it leaves.
Ok(df, h) == [type |-> "ok", msg |-> "", df |-> df, heap |-> h]
Raise(type, msg, h) == [type |-> type, msg |-> msg, df |-> EmptyTable, heap |-> h]


----------------------------------------------------------------------------
(* AgentEvaluationReserverKey.get_all() and                                *)
(* AGENT_EVAL_CUSTOM_EXPECTATION_KEY (mlflow.genai.evaluation.constant,    *)
(* imported at lines 8-11): the four members eval_fn names at lines        *)
(* 199-208 and the legacy column of its custom_expected argument.          *)

ReservedKeys == <<"expected_response", "expected_retrieved_context",
                  "expected_facts", "guidelines">>
AGENT_EVAL_CUSTOM_EXPECTATION_KEY == "custom_expected"

----------------------------------------------------------------------------
(* _extract_request_from_trace                                             *)

\* df["trace"].apply(lambda trace: json.loads(trace.data.request)), row by
\* row from row i: a cell that is no trace has no attribute `data`, a text
\* that is no JSON makes json.loads raise; a decoded object is a new dict.
RECURSIVE ApplyLoads(_, _, _, _)
ApplyLoads(traces, i, h, acc) ==
    IF i > Len(traces) THEN [type |-> "ok", col |-> acc, heap |-> h]
    ELSE IF traces[i].k # "trace"
    THEN [type |-> "AttributeError", col |-> acc, heap |-> h]
    ELSE LET v == json_loads(TraceTable[traces[i].n].request)
         IN  IF ~v.ok THEN [type |-> "JSONDecodeError", col |-> acc, heap |-> h]
             ELSE IF v.k = "dict"
             THEN ApplyLoads(traces, i + 1, Append(h, v.d),
                             Append(acc, Dict(Len(h) + 1)))
             ELSE ApplyLoads(traces, i + 1, h,
                             Append(acc, [k |-> v.k, s |-> v.s, n |-> 0]))

extract_request_from_trace(df, h) ==
    IF ~HasCol(df, "trace") THEN Ok(df, h)
    ELSE IF ~HasCol(df, "request")
    THEN LET a == ApplyLoads(Column(df, "trace"), 1, h, <<>>)
         IN  IF a.type = "ok" THEN Ok(SetCol(df, "request", a.col), a.heap)
             ELSE Raise(a.type, "", h)
    ELSE Ok(df, h)

----------------------------------------------------------------------------
(* _extract_expectations_from_trace                                        *)

\* for assessment in trace.info.assessments or []: ... (lines 120-123)
RECURSIVE CollectExpectations(_, _, _)
CollectExpectations(assessments, i, acc) ==
    IF i > Len(assessments) THEN acc
    ELSE LET a == assessments[i]
         IN  CollectExpectations(assessments, i + 1,
                IF a.has THEN DictSet(acc, a.name, a.value) ELSE acc)

extract_expectations_from_trace(df, h) ==
    IF ~HasCol(df, "trace") THEN Ok(df, h)
    ELSE LET traces == Column(df, "trace")
             n == NRows(df)
         IN  IF \E r \in 1..n : traces[r].k # "trace"
             THEN Raise("AttributeError", "", h)
             ELSE LET expectations_column == [r \in 1..n |->
                          CollectExpectations(
                              TraceTable[traces[r].n].assessments, 1, EmptyDict)]
                  IN  IF \A r \in 1..n : DOMAIN expectations_column[r] = {}
                      THEN Ok(df, h)
                      ELSE Ok(SetCol(df, "expectations",
                                     [r \in 1..n |-> Dict(Len(h) + r)]),
                              h \o expectations_column)

----------------------------------------------------------------------------
(* _convert_expectations_to_legacy_columns                                 *)

\* for field in [*get_all(), CUSTOM_KEY]: df[field] = None
RECURSIVE AddNoneColumns(_, _)
AddNoneColumns(df, fields) ==
    IF fields = <<>> THEN df
    ELSE AddNoneColumns(SetCol(df, Head(fields), [r \in 1..NRows(df) |-> None]),
                        Tail(fields))

\* for field in get_all(): if field in value: df.at[idx, field] = value.pop(field)
\* (value is heap[ref]: the pop is seen through every reference to the dict)
RECURSIVE PopReserved(_, _, _, _, _)
PopReserved(df, h, r, ref, fields) ==
    IF fields = <<>> THEN [df |-> df, heap |-> h]
    ELSE LET field == Head(fields)
         IN  IF field \in DOMAIN h[ref]
             THEN PopReserved(
                    SetAt(df, r, field, h[ref][field]),
                    [h EXCEPT ![ref] = [x \in DOMAIN h[ref] \ {field} |-> h[ref][x]]],
                    r, ref, Tail(fields))
             ELSE PopReserved(df, h, r, ref, Tail(fields))

\* for idx, value in df["expectations"].items(): ... (lines 140-159)
RECURSIVE FlattenRows(_, _, _, _)
FlattenRows(df, h, values, r) ==
    IF r > Len(values) THEN Ok(df, h)
    ELSE LET value == values[r]
         IN  IF IsDict(value)
             THEN LET p == PopReserved(df, h, r, value.n, ReservedKeys)
                      df2 == IF DOMAIN p.heap[value.n] # {}
                             THEN SetAt(p.df, r, AGENT_EVAL_CUSTOM_EXPECTATION_KEY, value)
                             ELSE p.df
                  IN  FlattenRows(df2, p.heap, values, r + 1)
             ELSE IF IsNa(value) THEN FlattenRows(df, h, values, r + 1)
             ELSE Raise("InvalidParameterValue", "expectations", h)

convert_expectations_to_legacy_columns(df, h) ==
    IF HasCol(df, "expectations")
    THEN LET df1 == AddNoneColumns(df,
                        Append(ReservedKeys, AGENT_EVAL_CUSTOM_EXPECTATION_KEY))
             f == FlattenRows(df1, h, Column(df1, "expectations"), 1)
         IN  IF f.type = "ok" THEN Ok(DropCol(f.df, "expectations"), f.heap)
             ELSE f
    ELSE Ok(df, h)

----------------------------------------------------------------------------
(* _convert_to_legacy_eval_set                                             *)

\* lines 45-71: the dataframe built from the argument, or the error raised
BuildFrame(d, h, haspyspark) ==
    IF d.kind = "list"
    THEN IF \E i \in 1..Len(d.items) : ~d.items[i].isdict
         THEN Raise("InvalidParameterValue", "item", h)
         ELSE Ok(FromRecords(d.items), h)
    ELSE IF d.kind = "pandas" THEN Ok(d.df, h)         \* data.copy()
    ELSE IF ~haspyspark THEN Raise("ImportError", "pyspark", h)
    ELSE IF d.kind = "spark" THEN Ok(d.df, h)          \* data.toPandas()
    ELSE Raise("InvalidParameterValue", "type", h)

\* Mutant: the required-columns check (lines 83-87) is missing.
Validate_NoColumnCheck(x) ==
    IF x.type # "ok" THEN x
    ELSE IF NRows(x.df) = 0
    THEN Raise("IndexError", "", x.heap)
    ELSE IF HasCol(x.df, "inputs") /\ ~IsDict(x.df.rows[1][ColIdx(x.df, "inputs")])
    THEN Raise("InvalidParameterValue", "inputs", x.heap)
    ELSE x

\* Mutant: the `inputs` shape check looks at every row.
Validate_EveryRow(x) ==
    IF x.type # "ok" THEN x
    ELSE IF NRows(x.df) = 0
    THEN Raise("IndexError", "", x.heap)
    ELSE IF HasCol(x.df, "inputs")
            /\ \E r \in 1..NRows(x.df) : ~IsDict(x.df.rows[r][ColIdx(x.df, "inputs")])
    THEN Raise("InvalidParameterValue", "inputs", x.heap)
    ELSE IF ~(HasCol(x.df, "trace") \/ HasCol(x.df, "inputs"))
    THEN Raise("InvalidParameterValue", "columns", x.heap)
    ELSE x

\* lines 73-87: the checks on the first row and on the columns
Validate(x) ==
    IF x.type # "ok" THEN x
    ELSE IF NRows(x.df) = 0
    THEN Raise("IndexError", "", x.heap)               \* df.iloc[0]
    ELSE IF HasCol(x.df, "inputs") /\ ~IsDict(x.df.rows[1][ColIdx(x.df, "inputs")])
    THEN Raise("InvalidParameterValue", "inputs", x.heap)
    ELSE IF ~(HasCol(x.df, "trace") \/ HasCol(x.df, "inputs"))
    THEN Raise("InvalidParameterValue", "columns", x.heap)
    ELSE x

\* lines 89-92: rename, then the two stages that read the traces; a stage
\* runs on the dataframe the stage before it returned
PipeToExpectations(d, h, haspyspark) ==
    LET checked == Validate(BuildFrame(d, h, haspyspark))
        renamed == IF checked.type = "ok"
                   THEN Ok(Rename(checked.df), checked.heap) ELSE checked
        request == IF renamed.type = "ok"
                   THEN extract_request_from_trace(renamed.df, renamed.heap)
                   ELSE renamed
    IN  IF request.type = "ok"
        THEN extract_expectations_from_trace(request.df, request.heap)
        ELSE request

convert_to_legacy_eval_set(d, h, haspyspark) ==
    LET x == PipeToExpectations(d, h, haspyspark)
    IN  IF x.type = "ok"
        THEN convert_expectations_to_legacy_columns(x.df, x.heap)
        ELSE x

----------------------------------------------------------------------------
(* _convert_scorer_to_legacy_metric.eval_fn                                *)
(* A value is None, a string or a dict of scalars.                         *)

VNone == [k |-> "none", s |-> "", d |-> EmptyDict]
VStr(x) == [k |-> "str", s |-> x, d |-> EmptyDict]
VDict(d) == [k |-> "dict", s |-> "", d |-> d]

\* expectations[key] = value if value is not None (lines 199-208)
PutIfNotNone(e, key, v) == IF v # VNone THEN DictSet(e, key, v) ELSE e

\* expectations.update(custom_expected) (lines 209-210)
Update(e, custom) ==
    IF custom = VNone THEN e
    ELSE [x \in DOMAIN e \cup DOMAIN custom.d |->
            IF x \in DOMAIN custom.d
            THEN [k |-> custom.d[x].k, s |-> custom.d[x].s, d |-> EmptyDict]
            ELSE e[x]]

\* lines 198-210: all expectations condensed into a single dict
Expectations(a) ==
    Update(
        PutIfNotNone(
            PutIfNotNone(
                PutIfNotNone(
                    PutIfNotNone(EmptyDict, "expected_response", a.expected_response),
                    "expected_facts", a.expected_facts),
                "expected_retrieved_context", a.expected_retrieved_context),
            "guidelines", a.guidelines),
        a.custom_expected)

\* The expectations dict as a value: its members are the arguments
\* themselves, so it is kept as a mapping of names to values.
MergedBase(a) ==
    [inputs |-> a.request,
     outputs |-> a.response,
     trace |-> a.trace,
     guidelines |-> a.guidelines,
     retrieved_context |-> a.retrieved_context,
     expected_facts |-> a.expected_facts,
     expected_retrieved_context |-> a.expected_retrieved_context,
     custom_expected |-> a.custom_expected,
     custom_inputs |-> a.custom_inputs,
     custom_outputs |-> a.custom_outputs,
     tool_calls |-> a.tool_calls]

\* lines 213-227: the keys of `merged`; **kwargs comes last in the literal
MergedKeys(a, kw) == DOMAIN MergedBase(a) \cup {"expectations"} \cup DOMAIN kw

\* merged[key]: "e" marks the condensed expectations dict, "v" a value
Merged(a, kw, key) ==
    IF key \in DOMAIN kw THEN [tag |-> "v", v |-> kw[key], e |-> EmptyDict]
    ELSE IF key = "expectations"
    THEN [tag |-> "e", v |-> VNone, e |-> Expectations(a)]
    ELSE [tag |-> "v", v |-> MergedBase(a)[key], e |-> EmptyDict]

\* Mutant: the merged context is forwarded whole.
Filtered_Unfiltered(params, a, kw) ==
    [key \in MergedKeys(a, kw) |-> Merged(a, kw, key)]

\* lines 229-230: {k: v for k, v in merged.items() if k in sig.parameters}
Filtered(params, a, kw) ==
    [key \in {x \in MergedKeys(a, kw) : x \in params} |-> Merged(a, kw, key)]

eval_fn(params, a, kw) == Filtered(params, a, kw)

----------------------------------------------------------------------------
(* Inputs.                                                                 *)

\* The dicts the caller built before the call, by reference.
\*   1: an `inputs` mapping
\*   2: expectations with a reserved and a custom key
\*   3: expectations with reserved keys only
\*   4: a second dict equal to 2 (another object)
CallerHeap == <<
    [x \in {"q"} |-> Str("1")],
    [x \in {"expected_response", "my_key"} |->
        IF x = "my_key" THEN Str("v") ELSE Str("yes")],
    [x \in {"expected_facts", "guidelines"} |->
        IF x = "guidelines" THEN Str("g") ELSE None],
    [x \in {"expected_response", "my_key"} |->
        IF x = "my_key" THEN Str("v") ELSE Str("yes")] >>

\* The values a cell of each column takes in the datasets explored.  NaN is
\* a missing value (in a list of dicts: a row without that key).
CellDomain(c) ==
    CASE c = "inputs" -> {Dict(1), Str("q"), NaN}
      [] c = "trace" -> {TraceCell(1), TraceCell(2), TraceCell(3), NaN}
      [] c = "expectations" -> {Dict(2), Dict(3), Dict(4), Str("bad"), NaN}
      [] c = "request" -> {Dict(1)}
      [] c = "expected_response" -> {Str("old")}
      [] c = "tag" -> {Str("t")}
      [] OTHER -> {Str("r")}

ColumnSets == {
    <<>>,
    <<"inputs">>,
    <<"inputs", "outputs">>,
    <<"tag", "inputs", "outputs">>,
    <<"request", "inputs">>,
    <<"inputs", "expectations">>,
    <<"expected_response", "inputs", "outputs", "expectations">>,
    <<"trace">>,
    <<"trace", "expectations">>,
    <<"inputs", "trace">>,
    <<"request", "response">>,
    <<"request", "response", "tag">>,
    <<"outputs", "tag">> }

AllCells == UNION {CellDomain(c) : c \in {"inputs", "trace", "expectations",
                        "request", "expected_response", "tag", "outputs"}}

RowsOf(cs) == {r \in [1..Len(cs) -> AllCells] :
                \A i \in 1..Len(cs) : r[i] \in CellDomain(cs[i])}

Tables == UNION {{[cols |-> cs, rows |-> rows] :
                    rows \in UNION {[1..n -> RowsOf(cs)] : n \in 0..MaxRows}} :
                 cs \in ColumnSets}

\* A dataframe row as the dict of a list input: its non-missing cells.
RECURSIVE Present(_, _, _)
Present(seq, row, i) ==
    IF i > Len(row) THEN <<>>
    ELSE IF row[i] = NaN THEN Present(seq, row, i + 1)
         ELSE <<seq[i]>> \o Present(seq, row, i + 1)

ItemOf(cols, row) ==
    [isdict |-> TRUE, cols |-> Present(cols, row, 1), vals |-> Present(row, row, 1)]
NonDictItem == [isdict |-> FALSE, cols |-> <<>>, vals |-> <<>>]

\* The list of dicts with the rows of t, item `bad` (if any) being no dict.
ListOf(t, bad) ==
    [kind |-> "list",
     items |-> [r \in 1..NRows(t) |->
                    IF r = bad THEN NonDictItem ELSE ItemOf(t.cols, t.rows[r])],
     df |-> EmptyTable]

Frame(kind, t) == [kind |-> kind, items |-> <<>>, df |-> t]

Datasets ==
    {ListOf(t, 0) : t \in Tables}
    \cup {ListOf(t, NRows(t)) : t \in {u \in Tables : NRows(u) > 0 /\ Len(u.cols) <= 1}}
    \cup {ListOf(t, 1) : t \in {u \in Tables : NRows(u) > 1 /\ Len(u.cols) <= 1}}
    \cup {Frame("pandas", t) : t \in Tables}
    \cup {Frame("spark", t) : t \in {u \in Tables : Len(u.cols) <= 1}}
    \cup {Frame("other", EmptyTable)}

ScorerSignatures == {
    {"request", "response"},
    {"inputs", "outputs"},
    {"inputs", "outputs", "expectations", "trace"},
    {"expectations"},
    {"trace", "tool_calls", "session_id", "request_id"},
    {"inputs", "kwargs"},
    {} }

OptStr(x) == {VNone, VStr(x)}

ArgSets ==
    [request_id : {VStr("id")},
     request : {VStr("q"), VDict([x \in {"q"} |-> Str("1")])},
     response : OptStr("r"),
     expected_response : OptStr("yes"),
     trace : OptStr("trace"),
     retrieved_context : {VNone},
     guidelines : OptStr("g"),
     expected_facts : OptStr("f"),
     expected_retrieved_context : {VNone},
     custom_expected : {VNone,
                        VDict([x \in {"my_key"} |-> Str("v")]),
                        VDict([x \in {"expected_response"} |-> Str("custom")])},
     custom_inputs : {VNone},
     custom_outputs : {VNone},
     tool_calls : OptStr("tool")]

\* Extra keyword context: a name none of eval_fn's named parameters takes
\* (`inputs` is one: the parameter is called `request`).
KwargSets == {EmptyDict,
              [x \in {"session_id"} |-> VStr("s1")],
              [x \in {"inputs"} |-> VStr("kw")]}

ArgNames == {"request_id", "request", "response", "expected_response", "trace",
             "retrieved_context", "guidelines", "expected_facts",
             "expected_retrieved_context", "custom_expected", "custom_inputs",
             "custom_outputs", "tool_calls"}
NoArgs == [f \in ArgNames |-> VNone]
NoCall == [made |-> FALSE, kw |-> EmptyDict]
NoData == Frame("other", EmptyTable)
NoOutcome == [type |-> "none", msg |-> ""]

----------------------------------------------------------------------------
(* Specification of the normalizer: the arguments are bound, then the      *)
(* call is made.                                                           *)

Init ==
    /\ pc = "start"
    /\ data \in Datasets
    \* a list or a pandas dataframe never reaches the import; a Spark
    \* dataframe exists only where pyspark can be imported
    /\ pyspark \in (IF data.kind = "other" THEN BOOLEAN ELSE {TRUE})
    /\ heap = CallerHeap
    /\ outcome = NoOutcome
    /\ result = EmptyTable
    /\ scorer = {}
    /\ args = NoArgs
    /\ kwargs = EmptyDict
    /\ call = NoCall

Convert ==
    /\ pc = "start"
    /\ LET r == convert_to_legacy_eval_set(data, heap, pyspark)
       IN  /\ outcome' = [type |-> r.type, msg |-> r.msg]
           /\ result' = r.df
           /\ heap' = r.heap
    /\ pc' = "done"
    /\ UNCHANGED <<data, pyspark, scorer, args, kwargs, call>>

Next == Convert

Spec == Init /\ [][Next]_vars

----------------------------------------------------------------------------
(* Specification of the metric adapter.                                    *)

InitScorer ==
    /\ pc = "start"
    /\ data = NoData
    /\ pyspark = TRUE
    /\ heap = CallerHeap
    /\ outcome = NoOutcome
    /\ result = EmptyTable
    /\ scorer \in ScorerSignatures
    /\ args \in ArgSets
    /\ kwargs \in KwargSets
    /\ call = NoCall

EvalFn ==
    /\ pc = "start"
    /\ call' = [made |-> TRUE, kw |-> eval_fn(scorer, args, kwargs)]
    /\ pc' = "done"
    /\ UNCHANGED <<data, pyspark, heap, outcome, result, scorer, args, kwargs>>

NextScorer == EvalFn

SpecScorer == InitScorer /\ [][NextScorer]_vars


----------------------------------------------------------------------------
(* Vocabulary of the properties.                                           *)

Done == pc = "done"
Returned == Done /\ outcome.type = "ok"
InvalidParameter(msg) == [type |-> "InvalidParameterValue", msg |-> msg]

\* The dataset as a dataframe, before any check (when one is built).
Built == BuildFrame(data, CallerHeap, pyspark).type = "ok"
InputFrame == BuildFrame(data, CallerHeap, pyspark).df

\* The dataframe and the heap as _convert_expectations_to_legacy_columns
\* receives them.
BeforeFlatten == PipeToExpectations(data, CallerHeap, pyspark)

Cell(df, r, c) == df.rows[r][ColIdx(df, c)]
FlatColumns == Append(ReservedKeys, AGENT_EVAL_CUSTOM_EXPECTATION_KEY)
IsFlatColumn(c) == \E i \in 1..Len(FlatColumns) : FlatColumns[i] = c

\* A list of dicts whose every row has a mapping as `inputs`.
ValidInputsList ==
    /\ data.kind = "list"
    /\ \A i \in 1..Len(data.items) :
        /\ data.items[i].isdict
        /\ IsDict(ItemGet(data.items[i], "inputs"))

\* The legacy label of a column of the modern schema.
LegacyLabel(c) ==
    CASE c = "inputs" -> "request" [] c = "outputs" -> "response" [] OTHER -> c

\* The cell holds the same value as before the call: the same scalar, or
\* the same dict with the same contents.
SameValue(after, before) ==
    /\ after = before
    /\ IsDict(before) => heap[before.n] = CallerHeap[before.n]

----------------------------------------------------------------------------
\* C1 (as stated): for every list of dict rows each with a mapping as
\* `inputs`, the table the call returns has `inputs` named `request`,
\* `outputs` named `response`, and every column of the input under its
\* (renamed) label with the same per-row values.
C1_Original ==
    (Returned /\ ValidInputsList) =>
        /\ Len(result.cols) >= Len(InputFrame.cols)
        /\ \A i \in 1..Len(InputFrame.cols) :
            /\ result.cols[i] = LegacyLabel(InputFrame.cols[i])
            /\ \A r \in 1..NRows(InputFrame) :
                SameValue(result.rows[r][i], InputFrame.rows[r][i])

\* C1 (amended): for every such list, whenever the call returns a table,
\* the input's columns other than `expectations` are there in their order,
\* `inputs` named `request` and `outputs` named `response`, and each of
\* them that is not labelled with a reserved or custom expectation key has
\* the same per-row values; the `expectations` column is not in the result.
C1_RenameKeepsOtherColumns ==
    (Returned /\ ValidInputsList) =>
        LET kept == DropCol(InputFrame, "expectations")
        IN  /\ Len(result.cols) >= Len(kept.cols)
            /\ NRows(result) = NRows(kept)
            /\ ~HasCol(result, "expectations")
            /\ ~HasCol(result, "inputs") /\ ~HasCol(result, "outputs")
            /\ \A i \in 1..Len(kept.cols) :
                /\ result.cols[i] = LegacyLabel(kept.cols[i])
                /\ ~IsFlatColumn(kept.cols[i]) =>
                    \A r \in 1..NRows(kept) :
                        SameValue(result.rows[r][i], kept.rows[r][i])

\* C1 witness: a returned list input with `outputs`, another column and an
\* `expectations` column, of two rows.
C1_Witness ==
    /\ Returned /\ ValidInputsList
    /\ HasCol(InputFrame, "outputs") /\ HasCol(InputFrame, "expectations")
    /\ HasCol(InputFrame, "expected_response")
    /\ NRows(InputFrame) = 2
    /\ HasCol(result, "response")

----------------------------------------------------------------------------
----------------------------------------------------------------------------
\* An already-normalized dataset: `request` and `response` columns, and no
\* `inputs`, `trace` or `expectations` column.
Normalized ==
    /\ Built
    /\ HasCol(InputFrame, "request") /\ HasCol(InputFrame, "response")
    /\ ~HasCol(InputFrame, "inputs") /\ ~HasCol(InputFrame, "trace")
    /\ ~HasCol(InputFrame, "expectations")

\* C3 (as stated): on an already-normalized dataset the call raises no
\* error and returns the same data.
C3_Original ==
    (Done /\ Normalized) =>
        /\ outcome.type = "ok"
        /\ result = InputFrame

\* C3 (amended): on an already-normalized dataset the call is no no-op: it
\* returns nothing and raises an error, which for a dataset of at least
\* one row is the invalid-parameter error that `inputs` or `trace` is
\* required.
C3_NormalizedIsRejected ==
    (Done /\ Normalized) =>
        /\ outcome.type \notin {"ok", "none"}
        /\ result = EmptyTable
        /\ NRows(InputFrame) > 0 => outcome = InvalidParameter("columns")

\* C3 witness: a normalized dataset of two rows was passed and rejected.
C3_Witness ==
    /\ Done /\ Normalized /\ NRows(InputFrame) = 2
    /\ outcome = InvalidParameter("columns")

----------------------------------------------------------------------------
\* C4: every dataset with neither a `trace` nor an `inputs` column makes
\* the call fail with an invalid-parameter error, and nothing is returned.
C4_MissingColumnsRejected ==
    (Done /\ Built /\ ~HasCol(InputFrame, "trace") /\ ~HasCol(InputFrame, "inputs")) =>
        /\ outcome.type = "InvalidParameterValue"
        /\ result = EmptyTable

----------------------------------------------------------------------------
\* The value json.loads gives for the trace's request is what cell c holds.
IsDecodedRequest(c, trace) ==
    /\ trace.k = "trace"
    /\ LET v == json_loads(TraceTable[trace.n].request)
       IN  /\ v.ok
           /\ IF v.k = "dict" THEN IsDict(c) /\ heap[c.n] = v.d
              ELSE c = [k |-> v.k, s |-> v.s, n |-> 0]

\* C5: whenever the call returns, every row of the result has a `request`
\* value that is the value provided for the row (its `inputs`) or the
\* value decoded from the row's trace's serialized request.
C5_EveryRowHasRequest ==
    Returned =>
        /\ HasCol(result, "request")
        /\ \A r \in 1..NRows(result) :
            \/ /\ HasCol(InputFrame, "inputs")
               /\ Cell(InputFrame, r, "inputs") # NaN
               /\ Cell(result, r, "request") = Cell(InputFrame, r, "inputs")
            \/ /\ HasCol(InputFrame, "request")
               /\ Cell(result, r, "request") = Cell(InputFrame, r, "request")
            \/ /\ HasCol(InputFrame, "trace")
               /\ IsDecodedRequest(Cell(result, r, "request"),
                                   Cell(InputFrame, r, "trace"))

----------------------------------------------------------------------------
\* C6: after the call, succeeded or failed, every cell of the caller's
\* dataframe holds the same value as before, the contents of the
\* `expectations` dicts included.
C6_CallerFrameUnchanged ==
    (Done /\ data.kind = "pandas") =>
        \A r \in 1..NRows(data.df) : \A i \in 1..Len(data.df.cols) :
            IsDict(data.df.rows[r][i]) =>
                heap[data.df.rows[r][i].n] = CallerHeap[data.df.rows[r][i].n]

----------------------------------------------------------------------------
\* C7: when the caller supplied an `expectations` column (here: a mapping
\* in every row), what is flattened into the result comes from it, never
\* from the traces' assessments: a reserved column's cell of a row is null
\* or the value the caller's dict of that row has under that key.
C7_CallerExpectationsKept ==
    ( /\ Returned /\ HasCol(InputFrame, "expectations")
      /\ \A r \in 1..NRows(InputFrame) :
            IsDict(Cell(InputFrame, r, "expectations")) ) =>
        \A r \in 1..NRows(result) : \A i \in 1..Len(ReservedKeys) :
            LET given == Cell(InputFrame, r, "expectations")
                field == ReservedKeys[i]
                cell == Cell(result, r, field)
            IN  /\ HasCol(result, field)
                /\ \/ cell = None
                   \/ /\ IsDict(given)
                      /\ field \in DOMAIN CallerHeap[given.n]
                      /\ cell = CallerHeap[given.n][field]

----------------------------------------------------------------------------
\* C8: when an `expectations` column exists, the result has one column per
\* reserved key and the custom column and no `expectations` column, and
\* for every row whose expectation value is a mapping: each reserved key
\* of the mapping is in its column with the mapped value, a reserved key
\* the mapping lacks is null, and the other keys are together under the
\* custom column with their values (null when there are none).
C8_FlattenedExactly ==
    (Returned /\ HasCol(BeforeFlatten.df, "expectations")) =>
        /\ ~HasCol(result, "expectations")
        /\ \A i \in 1..Len(FlatColumns) : HasCol(result, FlatColumns[i])
        /\ \A r \in 1..NRows(result) :
            LET value == Cell(BeforeFlatten.df, r, "expectations")
                mapping == BeforeFlatten.heap[value.n]
                reserved == {ReservedKeys[i] : i \in 1..Len(ReservedKeys)}
                custom == Cell(result, r, AGENT_EVAL_CUSTOM_EXPECTATION_KEY)
            IN  IsDict(value) =>
                  /\ \A f \in reserved :
                        Cell(result, r, f) =
                            IF f \in DOMAIN mapping THEN mapping[f] ELSE None
                  /\ IF DOMAIN mapping \subseteq reserved THEN custom = None
                     ELSE /\ IsDict(custom)
                          /\ heap[custom.n] =
                                [x \in DOMAIN mapping \ reserved |-> mapping[x]]

----------------------------------------------------------------------------
\* C9: every failure is an invalid-parameter error or a missing-dependency
\* error, and the latter is raised only for a distributed table whose
\* library is unavailable.
C9_OnlyDocumentedErrors ==
    Done =>
        /\ outcome.type \in {"ok", "InvalidParameterValue", "ImportError"}
        /\ outcome.type = "ImportError" => (data.kind = "spark" /\ ~pyspark)

----------------------------------------------------------------------------
====
